---- MODULE Spec2Model ----
(***************************************************************************)
(* Model of class ViewIntersection of                                      *)
(* src/@here/harp-mapview/lib/ViewIntersection.ts: the view-dependent tile *)
(* selection over a quadtree tiling scheme.                                *)
(*                                                                         *)
(* assert(condition) of @here/harp-utils throws when the condition is      *)
(* false; a compute that throws returns nothing.                           *)
(*                                                                         *)
(* Geographic coordinates are integers on a grid whose unit is MaxError    *)
(* (the epsilon of geoBoxesIntersect); 360 degrees of longitude are        *)
(* WorldWidth units and 180 degrees of latitude are WorldWidth \div 2.     *)
(* A JavaScript Map keyed by the tile-offset key is the set of its         *)
(* entries: the key of an entry is computed from the entry's own tileKey   *)
(* and offset, so a Map holds at most one entry per key.                   *)
(***************************************************************************)
EXTENDS Integers, Sequences, FiniteSets, TLC

\* ------------------------------------------------------------- bounds
\* No data source requests subdivision of a tile at this level or deeper.
MaxLevel == 2
\* Coordinates of the boxes of the pure geoBoxesIntersect check: 0..GridMax.
GridMax == 3

\* ---------------------------------------------------- program constants
\* const MaxError = 1E-7 : one grid unit.
MaxError == 1
\* 360.0 (degrees of one world width), in grid units.
WorldWidth == 32
\* The desired on-screen tile size of the target tile area, 256.
TileSize == 256
\* JavaScript's Infinity (the area of a root entry): above every finite area.
Infinity == 1000000

VARIABLES
    m_tileWrappingEnabled, \* constructor argument
    m_enableMixedLod,      \* constructor argument
    m_worldBox,            \* {} is undefined, {box} otherwise
    m_rootTileKeys,        \* sequence of TileKeyEntry
    m_tileKeyEntries,      \* zoom level -> set of TileKeyEntry (Map by key)
    workList,              \* the stack of compute
    zoomLevels,            \* argument of the current / last compute
    dataSources,           \* argument of the current / last compute
    viewportHeight,        \* mapView.viewportHeight read by that compute
    elevationRangeSource,  \* argument of the current / last compute
    calculationFinal,      \* the flag compute returns
    pc,                    \* "idle" or "loop" (inside compute's while loop)
    event,                 \* the operation or loop step performed last
    frustumChanged,        \* updateFrustum ran after the last compute began
    repeatOf,              \* <<result>> of the call this call repeats, or <<>>
    pushed,                \* the entries put on the stack by this call, in order
    stopped,               \* the entries this call popped and did not subdivide
    geoBoxA, geoBoxB,      \* inputs of the pure geoBoxesIntersect check
    geoResult              \* <<>> or <<geoBoxesIntersect(geoBoxA, geoBoxB)>>

engineVars == <<m_tileWrappingEnabled, m_enableMixedLod, m_worldBox, m_rootTileKeys,
                m_tileKeyEntries, workList, zoomLevels, dataSources, viewportHeight,
                elevationRangeSource, calculationFinal, pc, event, frustumChanged,
                repeatOf, pushed, stopped>>
geoVars == <<geoBoxA, geoBoxB, geoResult>>
vars == <<engineVars, geoVars>>

\* ------------------------------------------------------- tiling scheme
TileKey(level, row, column) == [level |-> level, row |-> row, column |-> column]

\* TileKey.fromRowColumnLevel(0, 0, 0)
RootTileKey == TileKey(0, 0, 0)

\* tilingScheme.getSubTileKeys: the four children of a quadtree tile.
getSubTileKeys(tileKey) ==
    << TileKey(tileKey.level + 1, 2 * tileKey.row,     2 * tileKey.column),
       TileKey(tileKey.level + 1, 2 * tileKey.row,     2 * tileKey.column + 1),
       TileKey(tileKey.level + 1, 2 * tileKey.row + 1, 2 * tileKey.column),
       TileKey(tileKey.level + 1, 2 * tileKey.row + 1, 2 * tileKey.column + 1) >>

GeoBox(west, south, east, north) ==
    [west |-> west, south |-> south, east |-> east, north |-> north]

\* tilingScheme.getGeoBox: the equirectangular box of a tile.
TilingSchemeGeoBox(tileKey) ==
    LET w == WorldWidth \div (2 ^ tileKey.level)
        h == (WorldWidth \div 2) \div (2 ^ tileKey.level)
        west  == tileKey.column * w - (WorldWidth \div 2)
        south == tileKey.row * h - (WorldWidth \div 4)
    IN  GeoBox(west, south, west + w, south + h)

getGeoBox(childTileKey, offset) ==
    LET geoBox == TilingSchemeGeoBox(childTileKey)
        longitudeOffset == WorldWidth * offset
    IN  [geoBox EXCEPT !.east = @ + longitudeOffset, !.west = @ + longitudeOffset]

geoBoxesIntersect(a, b) ==
    /\ a.west < b.east - MaxError
    /\ a.east >= b.west + MaxError
    /\ a.south <= b.north - MaxError
    /\ a.north >= b.south + MaxError

\* TileOffsetUtils.getKeyForTileKeyAndOffset: injective in (tileKey, offset).
getKeyForTileKeyAndOffset(tileKey, offset) ==
    <<tileKey.level, tileKey.row, tileKey.column, offset>>

\* new TileKeyEntry(tileKey, area, offset, minElevation, maxElevation, distance)
TileKeyEntry(tileKey, area, offset, minElevation, maxElevation, distance) ==
    [tileKey |-> tileKey, area |-> area, offset |-> offset,
     minElevation |-> minElevation, maxElevation |-> maxElevation,
     distance |-> distance]

KeyOf(entry) == getKeyForTileKeyAndOffset(entry.tileKey, entry.offset)

\* Map.set(key, entry) and Map.delete(key) on a map held as its set of entries.
MapSet(entries, entry) == {e \in entries : KeyOf(e) # KeyOf(entry)} \cup {entry}
MapDelete(entries, key) == {e \in entries : KeyOf(e) # key}

\* --------------------------------------------------------- data sources
DataSourceKinds == {"never", "default", "west"}

\* ds.shouldSubdivide(zoomLevel, tileKey), a pure predicate per data source:
\* "default" subdivides down to the zoom level, "west" only the western column.
shouldSubdivide(ds, zoomLevel, tileKey) ==
    /\ tileKey.level < MaxLevel
    /\ CASE ds = "never"   -> FALSE
         [] ds = "default" -> tileKey.level <= zoomLevel
         [] ds = "west"    -> tileKey.column = 0

\* dataSources.some((ds, i) => ds.shouldSubdivide(zoomLevels[i], tileKey))
SomeShouldSubdivide(dss, zls, tileKey) ==
    \E i \in 1..Len(dss) : shouldSubdivide(dss[i], zls[i], tileKey)

\* ------------------------------------------------------------- inputs
ZoomValues == {0 - 1, 0, 1, 2}
ViewportHeights == {0, 128, 512}
\* zoomLevels[i] pairs with dataSources[i]: lists of one or two elements.
SourceCounts == {1, 2}
ProjectionTypes == {"Planar", "Spherical"}
ElevationRangeSources == {"undefined", "sameTilingScheme", "otherTilingScheme"}

FullGlobe == GeoBox(0 - (WorldWidth \div 2), 0 - (WorldWidth \div 4),
                    WorldWidth \div 2, WorldWidth \div 4)
\* new GeoBox(new GeoCoordinates(0, 0, 0), new GeoCoordinates(0, 0, 0))
ZeroBox == GeoBox(0, 0, 0, 0)
\* mapView.geoBox: {} is undefined.
ViewGeoBoxes == { {}, {FullGlobe}, {GeoBox(0 - 5, 0 - 1, 1, 4)} }

\* The calls of compute: zoom levels in ascending order, each paired with any
\* data source, under every non-zero viewport height; the single-source calls
\* are also made at viewport height 0 and, at viewport height 512, with an
\* elevation range source.
ZoomLevelLists ==
    { zls \in UNION { [1..n -> ZoomValues] : n \in SourceCounts } :
        \A i \in 1..Len(zls) : \A j \in i..Len(zls) : zls[i] <= zls[j] }
ComputeCalls ==
    { c \in [zoomLevels : ZoomLevelLists,
             dataSources : UNION { [1..n -> DataSourceKinds] : n \in SourceCounts },
             viewportHeight : ViewportHeights,
             elevationRangeSource : ElevationRangeSources] :
        /\ Len(c.zoomLevels) = Len(c.dataSources)
        /\ c.viewportHeight = 0 => Len(c.zoomLevels) = 1
        /\ c.elevationRangeSource # "undefined" =>
              (Len(c.zoomLevels) = 1 /\ c.viewportHeight = 512) }

\* ------------------------------------------------------ ViewIntersection
computeRequiredInitialRootTileKeys(projectionType, wrappingEnabled) ==
    LET tileWrappingEnabled == projectionType = "Planar"
    IN  IF ~tileWrappingEnabled \/ ~wrappingEnabled
        THEN << TileKeyEntry(RootTileKey, Infinity, 0, 0, 0, 0) >>
        ELSE << TileKeyEntry(RootTileKey, Infinity, 0, 0, 0, 0) >>

\* this.m_rootTileKeys = [] at the head of computeRequiredInitialRootTileKeys
RootsKept(roots) == roots
RootsAfterReset(roots) == << >>

\* A variant of updateFrustum that also empties the maps of the last compute.
UpdateFrustumClearingMaps ==
    /\ pc = "idle"
    /\ \E geoBox \in ViewGeoBoxes, projectionType \in ProjectionTypes :
        /\ m_worldBox' = IF geoBox = {} THEN {ZeroBox} ELSE geoBox
        /\ m_rootTileKeys' =
              RootsAfterReset(m_rootTileKeys)
              \o computeRequiredInitialRootTileKeys(projectionType, m_tileWrappingEnabled)
    /\ m_tileKeyEntries' = << >>
    /\ frustumChanged' = TRUE
    /\ repeatOf' = << >>
    /\ event' = "updateFrustum"
    /\ UNCHANGED <<m_tileWrappingEnabled, m_enableMixedLod, workList,
                   zoomLevels, dataSources, viewportHeight, elevationRangeSource,
                   calculationFinal, pc, pushed, stopped, geoVars>>

UpdateFrustum ==
    /\ pc = "idle"
    /\ \E geoBox \in ViewGeoBoxes, projectionType \in ProjectionTypes :
        /\ m_worldBox' = IF geoBox = {} THEN {ZeroBox} ELSE geoBox
        /\ m_rootTileKeys' =
              RootsAfterReset(m_rootTileKeys)
              \o computeRequiredInitialRootTileKeys(projectionType, m_tileWrappingEnabled)
    /\ frustumChanged' = TRUE
    /\ repeatOf' = << >>
    /\ event' = "updateFrustum"
    /\ UNCHANGED <<m_tileWrappingEnabled, m_enableMixedLod, m_tileKeyEntries, workList,
                   zoomLevels, dataSources, viewportHeight, elevationRangeSource,
                   calculationFinal, pc, pushed, stopped, geoVars>>

\* tileEntry.area < Math.pow(256 / viewportHeight, 2)
AreaBelowTarget(area, height) ==
    IF area = Infinity THEN FALSE
    ELSE IF height = 0 THEN TRUE
    ELSE area * height * height < TileSize * TileSize

\* for (const zoomLevel of uniqueZoomLevels) m_tileKeyEntries.set(zoomLevel, new Map())
\* then every root is set into every map.
SeededNoRoots(zls, roots) == [z \in {zls[i] : i \in 1..Len(zls)} |-> {}]
SeededEntries(zls, roots) ==
    LET uniqueZoomLevels == {zls[i] : i \in 1..Len(zls)}
        seeded == { TileKeyEntry(roots[i].tileKey, Infinity, roots[i].offset,
                                 roots[i].minElevation, roots[i].maxElevation, 0)
                    : i \in 1..Len(roots) }
    IN  [z \in uniqueZoomLevels |-> seeded]

\* this.m_tileKeyEntries.clear()
NotCleared(entries) == entries
Cleared(entries) == << >>

\* The map of maps after the two seeding loops: the maps of the requested
\* zoom levels are set anew, any other map of the cleared object is kept.
MapsAfterSeeding(cleared, zls, roots) ==
    LET seeded == SeededEntries(zls, roots)
    IN  [z \in DOMAIN cleared \cup DOMAIN seeded |->
            IF z \in DOMAIN seeded THEN seeded[z] ELSE cleared[z]]

\* const workList = [...this.m_rootTileKeys.values()] copies the list: the
\* pops of the loop leave m_rootTileKeys as it was.
RootsDrained(roots) == <<>>
RootsAfterCopy(roots) == roots

ComputeBegin(zls, dss, height, ers) ==
    /\ pc = "idle"
    /\ zoomLevels' = zls
    /\ dataSources' = dss
    /\ viewportHeight' = height
    /\ elevationRangeSource' = ers
    /\ frustumChanged' = FALSE
    /\ stopped' = {}
    /\ IF m_worldBox = {}
       THEN /\ m_tileKeyEntries' = Cleared(m_tileKeyEntries)
            /\ calculationFinal' = TRUE
            /\ event' = "computeEarlyReturn"
            /\ pushed' = << >>
            /\ UNCHANGED <<pc, workList, m_rootTileKeys>>
       ELSE IF height = 0
       THEN \* assert(this.mapView.viewportHeight !== 0) throws
            /\ m_tileKeyEntries' = Cleared(m_tileKeyEntries)
            /\ event' = "computeThrew"
            /\ pushed' = << >>
            /\ UNCHANGED <<pc, workList, m_rootTileKeys, calculationFinal>>
       ELSE \* useElevationRangeSource, obbIntersections and tileBounds are
            \* computed here and read by no later statement.
            /\ m_tileKeyEntries' =
                  MapsAfterSeeding(Cleared(m_tileKeyEntries), zls, m_rootTileKeys)
            /\ workList' = m_rootTileKeys
            /\ pushed' = m_rootTileKeys
            /\ m_rootTileKeys' = RootsAfterCopy(m_rootTileKeys)
            /\ calculationFinal' = TRUE
            /\ pc' = "loop"
            /\ event' = "computeSeeded"
    /\ UNCHANGED <<m_tileWrappingEnabled, m_enableMixedLod, m_worldBox, geoVars>>

Compute ==
    /\ pc = "idle"
    /\ \E c \in ComputeCalls :
          ComputeBegin(c.zoomLevels, c.dataSources, c.viewportHeight,
                       c.elevationRangeSource)
    /\ repeatOf' = << >>

\* The same call again: identical arguments, the view unchanged, no
\* updateFrustum since the last call returned.
ComputeAgain ==
    /\ pc = "idle"
    /\ event \in {"computeEarlyReturn", "return"}
    /\ ~frustumChanged
    /\ repeatOf = << >>
    /\ ComputeBegin(zoomLevels, dataSources, viewportHeight, elevationRangeSource)
    /\ repeatOf' = << [tileKeyEntries |-> m_tileKeyEntries,
                       calculationFinal |-> calculationFinal] >>

\* The same call with another elevation range source: identical zoom levels,
\* data sources and view, no updateFrustum since the last call returned.
\* repeatOf keeps the result of that last call and the source it was given.
ComputeWithOtherElevationSource ==
    /\ pc = "idle"
    /\ event \in {"computeEarlyReturn", "return"}
    /\ ~frustumChanged
    /\ repeatOf = << >>
    /\ \E ers \in ElevationRangeSources \ {elevationRangeSource} :
          /\ [zoomLevels |-> zoomLevels, dataSources |-> dataSources,
              viewportHeight |-> viewportHeight,
              elevationRangeSource |-> ers] \in ComputeCalls
          /\ ComputeBegin(zoomLevels, dataSources, viewportHeight, ers)
    /\ repeatOf' = << [tileKeyEntries |-> m_tileKeyEntries,
                       calculationFinal |-> calculationFinal],
                      elevationRangeSource >>

\* delete parent tile key from applicable zoom levels
DeleteParentEverywhere(entries, tileEntry) ==
    [z \in DOMAIN entries |-> MapDelete(entries[z], KeyOf(tileEntry))]
KeepParent(entries, tileEntry) == entries
DeleteParent(entries, tileEntry) ==
    [z \in DOMAIN entries |->
        IF tileEntry.tileKey.level >= z
        THEN entries[z]
        ELSE MapDelete(entries[z], KeyOf(tileEntry))]

\* The children of tileEntry that pass the geoBoxesIntersect test, in
\* getSubTileKeys order, as new TileKeyEntry(childTileKey, 1, offset, .., 1).
AllChildren(tileEntry, worldBox) ==
    LET keys == getSubTileKeys(tileEntry.tileKey)
    IN  [i \in 1..Len(keys) |-> TileKeyEntry(keys[i], 1, tileEntry.offset, 0, 0, 1)]
\* A variant that skips the geoBoxesIntersect test when the elevation range
\* source matches the tiling scheme.
ChildrenUnprunedWithElevation(tileEntry, worldBox) ==
    LET keys == getSubTileKeys(tileEntry.tileKey)
        offset == tileEntry.offset
        kept == SelectSeq(keys,
                   LAMBDA k : \/ elevationRangeSource = "sameTilingScheme"
                              \/ geoBoxesIntersect(worldBox, getGeoBox(k, offset)))
    IN  [i \in 1..Len(kept) |-> TileKeyEntry(kept[i], 1, offset, 0, 0, 1)]
SurvivingChildren(tileEntry, worldBox) ==
    LET keys == getSubTileKeys(tileEntry.tileKey)
        offset == tileEntry.offset
        kept == SelectSeq(keys,
                   LAMBDA k : geoBoxesIntersect(worldBox, getGeoBox(k, offset)))
    IN  [i \in 1..Len(kept) |-> TileKeyEntry(kept[i], 1, offset, 0, 0, 1)]

\* insert sub tile entry into tile entries map per zoom level
RECURSIVE InsertChildren(_, _)
\* A variant that sets every child in the map of every zoom level.
InsertAtEveryZoomLevel(entries, children) ==
    [z \in DOMAIN entries |->
        entries[z] \cup {children[i] : i \in 1..Len(children)}]

\* A variant that sets a child only in the maps of the zoom levels above it.
InsertBelowLevel(entries, children) ==
    [z \in DOMAIN entries |->
        {c \in {children[i] : i \in 1..Len(children)} : c.tileKey.level < z}
        \cup entries[z]]
InsertChildren(entries, children) ==
    IF children = << >> THEN entries
    ELSE LET subTileEntry == Head(children)
             inserted == [z \in DOMAIN entries |->
                            IF subTileEntry.tileKey.level > z
                            THEN entries[z]
                            ELSE MapSet(entries[z], subTileEntry)]
         IN  InsertChildren(inserted, Tail(children))

\* if (this.m_enableMixedLod && tileEntry.area < targetTileArea) continue
LodNeverStops(mixedLod, area, height) == FALSE
LodStops(mixedLod, area, height) == mixedLod /\ AreaBelowTarget(area, height)

\* workList.push(subTileEntry) for every surviving child, in order.
PushAllTwice(stack, children) == stack \o children \o children
PushAll(stack, children) == stack \o children

\* One iteration of the while loop of compute: pop, decide, subdivide.
ComputeStep ==
    /\ pc = "loop"
    /\ workList # << >>
    /\ LET tileEntry == workList[Len(workList)]
           rest == SubSeq(workList, 1, Len(workList) - 1)
           worldBox == CHOOSE b \in m_worldBox : TRUE
       IN  IF ~SomeShouldSubdivide(dataSources, zoomLevels, tileEntry.tileKey)
           THEN /\ workList' = rest
                /\ event' = "stepNoSubdivide"
                /\ stopped' = stopped \cup {tileEntry}
                /\ UNCHANGED <<m_tileKeyEntries, pushed>>
           ELSE IF LodStops(m_enableMixedLod, tileEntry.area, viewportHeight)
           THEN /\ workList' = rest
                /\ event' = "stepLodStop"
                /\ stopped' = stopped \cup {tileEntry}
                /\ UNCHANGED <<m_tileKeyEntries, pushed>>
           ELSE LET children == SurvivingChildren(tileEntry, worldBox)
                IN  /\ m_tileKeyEntries' =
                          InsertChildren(DeleteParent(m_tileKeyEntries, tileEntry),
                                         children)
                    /\ workList' = PushAll(rest, children)
                    /\ pushed' = pushed \o SubSeq(workList', Len(rest) + 1,
                                                  Len(workList'))
                    /\ event' = "stepSubdivided"
                    /\ UNCHANGED stopped
    /\ UNCHANGED <<m_tileWrappingEnabled, m_enableMixedLod, m_worldBox, m_rootTileKeys,
                   zoomLevels, dataSources, viewportHeight, elevationRangeSource,
                   calculationFinal, pc, frustumChanged, repeatOf, geoVars>>

\* return { tileKeyEntries: this.m_tileKeyEntries, calculationFinal }
ComputeReturn ==
    /\ pc = "loop"
    /\ workList = << >>
    /\ pc' = "idle"
    /\ event' = "return"
    /\ UNCHANGED <<m_tileWrappingEnabled, m_enableMixedLod, m_worldBox, m_rootTileKeys,
                   m_tileKeyEntries, workList, zoomLevels, dataSources, viewportHeight,
                   elevationRangeSource, calculationFinal, frustumChanged, repeatOf,
                   pushed, stopped, geoVars>>

Init ==
    /\ m_tileWrappingEnabled \in BOOLEAN
    /\ m_enableMixedLod \in BOOLEAN
    /\ m_worldBox = {}
    /\ m_rootTileKeys = << >>
    /\ m_tileKeyEntries = << >>
    /\ workList = << >>
    /\ zoomLevels = << >>
    /\ dataSources = << >>
    /\ viewportHeight = 0
    /\ elevationRangeSource = "undefined"
    /\ calculationFinal = TRUE
    /\ pc = "idle"
    /\ event = "init"
    /\ frustumChanged = FALSE
    /\ repeatOf = << >>
    /\ pushed = << >>
    /\ stopped = {}
    /\ geoBoxA = ZeroBox
    /\ geoBoxB = ZeroBox
    /\ geoResult = << >>

Next ==
    \/ UpdateFrustum
    \/ Compute
    \/ ComputeAgain
    \/ ComputeStep
    \/ ComputeReturn

Spec == Init /\ [][Next]_vars

\* The engine with, in place of the identical repeated call, a repeated call
\* that differs in the elevation range source only.
ElevationNext ==
    \/ UpdateFrustum
    \/ Compute
    \/ ComputeWithOtherElevationSource
    \/ ComputeStep
    \/ ComputeReturn

ElevationSpec == Init /\ [][ElevationNext]_vars

\* compute is one synchronous call: once it has begun, its loop iterations and
\* its return statement run without waiting for anything.
FairSpec == Spec /\ WF_vars(ComputeStep) /\ WF_vars(ComputeReturn)

\* --------------------------------------------- the pure intersection test
\* Well-formed boxes (west <= east, south <= north) on the grid 0..GridMax.
GridBoxes ==
    { GeoBox(w, s, e, n) : w \in 0..GridMax, s \in 0..GridMax,
                           e \in 0..GridMax, n \in 0..GridMax }
GeoInit ==
    /\ m_tileWrappingEnabled = FALSE
    /\ m_enableMixedLod = FALSE
    /\ m_worldBox = {}
    /\ m_rootTileKeys = << >>
    /\ m_tileKeyEntries = << >>
    /\ workList = << >>
    /\ zoomLevels = << >>
    /\ dataSources = << >>
    /\ viewportHeight = 0
    /\ elevationRangeSource = "undefined"
    /\ calculationFinal = TRUE
    /\ pc = "idle"
    /\ event = "init"
    /\ frustumChanged = FALSE
    /\ repeatOf = << >>
    /\ pushed = << >>
    /\ stopped = {}
    /\ geoBoxA \in {b \in GridBoxes : b.west <= b.east /\ b.south <= b.north}
    /\ geoBoxB \in {b \in GridBoxes : b.west <= b.east /\ b.south <= b.north}
    /\ geoResult = << >>

\* A call geoBoxesIntersect(geoBoxA, geoBoxB).
GeoIntersect ==
    /\ geoResult = << >>
    /\ geoResult' = << geoBoxesIntersect(geoBoxA, geoBoxB) >>
    /\ UNCHANGED <<engineVars, geoBoxA, geoBoxB>>

GeoNext == GeoIntersect

GeoSpec == GeoInit /\ [][GeoNext]_vars

\* ------------------------------------------------- vocabulary of the claims
Returned == pc = "idle" /\ event \in {"computeEarlyReturn", "return"}

WorldBox == CHOOSE b \in m_worldBox : TRUE

MapAt(z) == IF z \in DOMAIN m_tileKeyEntries THEN m_tileKeyEntries[z] ELSE {}

MapEntries == UNION { m_tileKeyEntries[z] : z \in DOMAIN m_tileKeyEntries }

WorkListEntries == { workList[i] : i \in 1..Len(workList) }

RequestedZoomLevels == { zoomLevels[i] : i \in 1..Len(zoomLevels) }

TilesAtLevel(l) == { TileKey(l, r, c) : r \in 0..(2 ^ l - 1), c \in 0..(2 ^ l - 1) }

AllTiles == UNION { TilesAtLevel(l) : l \in 0..MaxLevel }

\* The ancestor (or the tile itself) of tileKey at level l <= tileKey.level.
AncestorAt(tileKey, l) ==
    TileKey(l, tileKey.row \div (2 ^ (tileKey.level - l)),
               tileKey.column \div (2 ^ (tileKey.level - l)))

IsProperAncestor(a, d) == a.level < d.level /\ AncestorAt(d, a.level) = a

Siblings(tileKey) ==
    LET keys == getSubTileKeys(AncestorAt(tileKey, tileKey.level - 1))
    IN  { keys[i] : i \in 1..Len(keys) }

RootEntry == TileKeyEntry(RootTileKey, Infinity, 0, 0, 0, 0)

NoSubdivisionRequested ==
    \A t \in AllTiles : ~SomeShouldSubdivide(dataSources, zoomLevels, t)

IsDegenerate(box) == box.west = box.east \/ box.south = box.north

\* ------------------------------------------------------------------ C1
\* C1: in every state, and so after any compute call, no zoom-level map holds
\* two entries with the same offset of which one tile is a proper ancestor of
\* the other.
PartitionInvariant ==
    \A z \in DOMAIN m_tileKeyEntries :
        \A e1 \in m_tileKeyEntries[z], e2 \in m_tileKeyEntries[z] :
            ~(e1.offset = e2.offset /\ IsProperAncestor(e1.tileKey, e2.tileKey))

\* A returned map that mixes tile levels (a coarse leaf beside finer tiles).
PartitionWitness ==
    /\ Returned
    /\ \E z \in DOMAIN m_tileKeyEntries :
         \E e1 \in m_tileKeyEntries[z], e2 \in m_tileKeyEntries[z] :
            /\ e1.tileKey.level >= 1
            /\ e1.tileKey.level < e2.tileKey.level

\* ------------------------------------------------------------------ C2
\* C2: while the WorldBox is the one compute ran with, every entry of level
\* >= 1 in any map or on the work stack, and every ancestor of it of level
\* >= 1, has an offset-shifted geo-box that passes geoBoxesIntersect against
\* the WorldBox: a child that fails the test is neither inserted nor pushed,
\* and no descendant of it appears.
PruningCorrectness ==
    ~frustumChanged =>
        \A e \in MapEntries \cup WorkListEntries :
            \A l \in 1..e.tileKey.level :
                /\ m_worldBox # {}
                /\ geoBoxesIntersect(WorldBox, getGeoBox(AncestorAt(e.tileKey, l), e.offset))

\* A returned result with an entry one of whose siblings failed the test and
\* is in no map.
PruningWitness ==
    /\ Returned
    /\ ~frustumChanged
    /\ m_worldBox # {}
    /\ \E e \in MapEntries :
         /\ e.tileKey.level >= 1
         /\ \E s \in Siblings(e.tileKey) :
              /\ ~geoBoxesIntersect(WorldBox, getGeoBox(s, e.offset))
              /\ \A x \in MapEntries : x.tileKey # s

\* ------------------------------------------------------------------ C3
\* The scenario of C3: mixed-LOD off, full-globe WorldBox, one zoom level Z,
\* one data source subdividing every tile of a level < Z and none of a level > Z.
TargetLevelScenario ==
    /\ Returned
    /\ ~frustumChanged
    /\ ~m_enableMixedLod
    /\ m_worldBox = {FullGlobe}
    /\ Len(zoomLevels) = 1
    /\ zoomLevels[1] >= 0
    /\ \A t \in AllTiles :
         /\ t.level < zoomLevels[1] => shouldSubdivide(dataSources[1], zoomLevels[1], t)
         /\ t.level > zoomLevels[1] => ~shouldSubdivide(dataSources[1], zoomLevels[1], t)

\* C3: in that scenario the zoom-Z map holds exactly the level-Z tiles whose
\* geo-box intersects the WorldBox (offset 0), and so no entry of a level
\* below Z.
TargetLevelSelection ==
    TargetLevelScenario =>
        /\ DOMAIN m_tileKeyEntries = {zoomLevels[1]}
        /\ { e.tileKey : e \in m_tileKeyEntries[zoomLevels[1]] } =
              { t \in TilesAtLevel(zoomLevels[1]) :
                    geoBoxesIntersect(FullGlobe, getGeoBox(t, 0)) }
        /\ \A e \in m_tileKeyEntries[zoomLevels[1]] : e.offset = 0

TargetLevelWitness ==
    /\ TargetLevelScenario
    /\ zoomLevels[1] = 2
    /\ Cardinality(m_tileKeyEntries[2]) = 16

\* ------------------------------------------------------------------ C4
\* C4 as claimed: in every state, also before the first updateFrustum, a
\* compute that returns with wraparound disabled and no subdivision requested
\* has the root entry in every requested zoom-level map.
RootSeedingAnyState ==
    (Returned /\ ~m_tileWrappingEnabled /\ NoSubdivisionRequested) =>
        \A z \in RequestedZoomLevels : RootEntry \in MapAt(z)

\* C4 amended: the same once updateFrustum has run (the WorldBox is defined,
\* degenerate or not).
RootSeedingAfterUpdateFrustum ==
    (Returned /\ m_worldBox # {} /\ ~m_tileWrappingEnabled /\ NoSubdivisionRequested) =>
        \A z \in RequestedZoomLevels :
            z \in DOMAIN m_tileKeyEntries /\ RootEntry \in m_tileKeyEntries[z]

RootSeedingWitness ==
    /\ Returned
    /\ ~frustumChanged
    /\ m_worldBox = {ZeroBox}
    /\ ~m_tileWrappingEnabled
    /\ NoSubdivisionRequested
    /\ Len(zoomLevels) = 2
    /\ zoomLevels[1] # zoomLevels[2]
    /\ \A z \in RequestedZoomLevels : m_tileKeyEntries[z] = {RootEntry}

\* ------------------------------------------------------------------ C5
\* C5: a compute that ran with an undefined or degenerate (zero-area)
\* WorldBox returns an empty map for every requested zoom level and
\* calculationFinal = true.
DegenerateWorldExtentEmpty ==
    (Returned /\ ~frustumChanged /\ (m_worldBox = {} \/ IsDegenerate(WorldBox))) =>
        /\ \A z \in RequestedZoomLevels : MapAt(z) = {}
        /\ calculationFinal

\* ------------------------------------------------------------------ C6
\* The loop step subdivides tileEntry: it leaves every map of a zoom level
\* above its level, and its surviving children are pushed.
Subdivides(tileEntry) ==
    /\ \A z \in DOMAIN m_tileKeyEntries :
          z > tileEntry.tileKey.level => tileEntry \notin m_tileKeyEntries'[z]
    /\ workList' = SubSeq(workList, 1, Len(workList) - 1)
                      \o SurvivingChildren(tileEntry, WorldBox)

\* C6: with mixed-LOD on, a popped entry whose area is below
\* (256 / viewportHeight)^2 leaves every map as it is and pushes nothing,
\* whatever the data sources answer; with mixed-LOD off, a popped entry a
\* data source wants subdivided is subdivided whatever its area.
MixedLodStop ==
    [][ (pc = "loop" /\ workList # << >>) =>
          LET tileEntry == workList[Len(workList)]
          IN  /\ (m_enableMixedLod /\ AreaBelowTarget(tileEntry.area, viewportHeight)) =>
                    /\ m_tileKeyEntries' = m_tileKeyEntries
                    /\ workList' = SubSeq(workList, 1, Len(workList) - 1)
              /\ (~m_enableMixedLod
                    /\ SomeShouldSubdivide(dataSources, zoomLevels, tileEntry.tileKey)) =>
                    Subdivides(tileEntry)
      ]_vars

\* A returned result, mixed-LOD on, that keeps in a finer zoom level's map an
\* entry with area below the target that a data source wants subdivided.
MixedLodWitness ==
    /\ Returned
    /\ m_enableMixedLod
    /\ event = "return"
    /\ \E z \in DOMAIN m_tileKeyEntries :
         \E e \in m_tileKeyEntries[z] :
            /\ e.tileKey.level < z
            /\ SomeShouldSubdivide(dataSources, zoomLevels, e.tileKey)
            /\ AreaBelowTarget(e.area, viewportHeight)

\* ------------------------------------------------------------------ C7
\* C7: a compute that repeats the previous call (same arguments, same view,
\* no updateFrustum in between) returns what that call returned: the same
\* zoom levels, the same entries per zoom level, the same calculationFinal.
ComputeIdempotent ==
    (Returned /\ repeatOf # << >>) =>
        repeatOf[1] = [tileKeyEntries |-> m_tileKeyEntries,
                       calculationFinal |-> calculationFinal]

ComputeIdempotentWitness ==
    /\ Returned
    /\ repeatOf # << >>
    /\ event = "return"
    /\ \E z \in DOMAIN m_tileKeyEntries : Cardinality(m_tileKeyEntries[z]) > 4

\* ------------------------------------------------------------------ C8
\* C8: geoBoxesIntersect(a, b) is true exactly when the longitude extents and
\* the latitude extents both overlap strictly after the epsilon margin is
\* applied at every boundary.
GeoBoxStrictOverlap ==
    geoResult # << >> =>
        geoResult[1] = ( /\ geoBoxA.west < geoBoxB.east - MaxError
                         /\ geoBoxA.east > geoBoxB.west + MaxError
                         /\ geoBoxA.south < geoBoxB.north - MaxError
                         /\ geoBoxA.north > geoBoxB.south + MaxError )

\* ------------------------------------------------------------------ C9
Transposed(box) == GeoBox(box.south, box.west, box.north, box.east)

\* C9: exchanging longitude and latitude in both boxes does not change the
\* result of geoBoxesIntersect.
GeoBoxAxisSymmetric ==
    geoResult # << >> =>
        geoResult[1] = geoBoxesIntersect(Transposed(geoBoxA), Transposed(geoBoxB))

\* ------------------------------------------------------------------ C10
\* C10: a compute call made with viewport height zero ends in the assertion
\* failure, with the per-zoom maps as they were before the call.
ViewportPrecondition ==
    [][ ( /\ pc = "idle"
          /\ event' \in {"computeEarlyReturn", "computeThrew", "computeSeeded"}
          /\ viewportHeight' = 0 ) =>
            /\ event' = "computeThrew"
            /\ m_tileKeyEntries' = m_tileKeyEntries
      ]_vars


\* ---------------------------------------------------------------------------
\* C11  A compute call that ran the traversal reports calculationFinal = TRUE
\* exactly when precise elevation data was used: with an elevation range
\* source that is missing or belongs to another tiling scheme the call
\* returns normally and reports calculationFinal = FALSE.
ElevationMissingOrMismatched ==
    elevationRangeSource \in {"undefined", "otherTilingScheme"}

CalculationFinalReporting ==
    (Returned /\ event = "return")
        => (calculationFinal <=> ~ElevationMissingOrMismatched)


\* ---------------------------------------------------------------------------
\* C12  With subdivision capped at level MaxLevel and four children per tile,
\* every compute call that entered its loop reaches an empty work stack and
\* returns, and no (tile key, offset) pair is put on the stack twice during
\* one call.
PushedKeys == [i \in DOMAIN pushed |-> KeyOf(pushed[i])]

PushedAtMostOnce ==
    \A i, j \in DOMAIN pushed : PushedKeys[i] = PushedKeys[j] => i = j

ComputeTerminates ==
    /\ (pc = "loop") ~> (pc = "idle" /\ event = "return" /\ workList = << >>)
    /\ []PushedAtMostOnce

ComputeTerminatesWitness ==
    /\ Returned
    /\ event = "return"
    /\ workList = << >>
    /\ Len(pushed) > 4
    /\ \E i \in DOMAIN pushed : pushed[i].tileKey.level = MaxLevel


\* ---------------------------------------------------------------------------
\* C13  The maps a compute call returned belong to that call: the operation
\* that follows the return on the same instance, be it updateFrustum or
\* another compute, leaves the returned result (its set of zoom levels and
\* the entries of each map) as it was returned.  The returned tileKeyEntries
\* is the object this.m_tileKeyEntries.
ReturnedResultUnchanged ==
    [][Returned => m_tileKeyEntries' = m_tileKeyEntries]_vars

\* ---------------------------------------------------------------------------
\* C14  The area and the distance of a surviving child come from its bounding
\* volume and the view-projection matrix and are not one constant for every
\* child: under the orthographic camera of this class a child of a deeper
\* level has a smaller bounding box, hence a different area.
ChildEntries ==
    {e \in MapEntries \cup WorkListEntries : e.tileKey.level > 0}

ChildAreaNotConstant ==
    \A e1, e2 \in ChildEntries :
        e1.tileKey.level # e2.tileKey.level => e1.area # e2.area


\* ---------------------------------------------------------------------------
\* C15  At every step of compute and in its result, every entry of the map of
\* a requested zoom level z >= 0 has level <= z: a child of a level above z is
\* pushed on the work stack but not set in the map of z.
LevelBound ==
    \A z \in DOMAIN m_tileKeyEntries :
        z >= 0 => \A e \in m_tileKeyEntries[z] : e.tileKey.level <= z

LevelBoundWitness ==
    /\ pc = "loop"
    /\ event = "stepSubdivided"
    /\ \E z \in DOMAIN m_tileKeyEntries, e \in WorkListEntries :
          /\ z >= 0
          /\ e.tileKey.level > z
          /\ e \notin m_tileKeyEntries[z]
          /\ \E x \in m_tileKeyEntries[z] : x.tileKey.level = z


\* ---------------------------------------------------------------------------
\* C16  While compute runs, an entry of level L stays in the map of every zoom
\* level z <= L: an entry leaves the map of z only when z > L, and only in the
\* iteration that pops and subdivides that very entry.
NoRemovalAtOrPastTargetLevel ==
    [][pc = "loop" =>
        \A z \in DOMAIN m_tileKeyEntries :
            \A e \in m_tileKeyEntries[z] :
                (z \notin DOMAIN m_tileKeyEntries' \/ e \notin m_tileKeyEntries'[z])
                    => /\ z > e.tileKey.level
                       /\ event' = "stepSubdivided"
                       /\ KeyOf(e) = KeyOf(workList[Len(workList)])
      ]_vars

NoRemovalWitness ==
    /\ pc = "loop"
    /\ event = "stepSubdivided"
    /\ \E z, above \in DOMAIN m_tileKeyEntries :
          \E e \in m_tileKeyEntries[z] :
              /\ z <= e.tileKey.level
              /\ above > e.tileKey.level
              /\ e \notin m_tileKeyEntries[above]
              /\ \E i \in DOMAIN pushed :
                    IsProperAncestor(e.tileKey, pushed[i].tileKey)


\* ---------------------------------------------------------------------------
\* C17  After compute, for every entry at which the traversal stopped (popped
\* and not subdivided), of level L, and every requested zoom level z >= 0, the
\* map of z holds exactly one ancestor-or-self of that entry with its offset:
\* the entry itself when L <= z, its level-z ancestor otherwise.
AncestorsOrSelfIn(entries, e) ==
    {x \in entries :
        /\ x.offset = e.offset
        /\ \/ x.tileKey = e.tileKey
           \/ IsProperAncestor(x.tileKey, e.tileKey)}

CoveragePerBranch ==
    (Returned /\ event = "return") =>
        \A e \in stopped :
            \A z \in DOMAIN m_tileKeyEntries :
                z >= 0 =>
                    LET found == AncestorsOrSelfIn(m_tileKeyEntries[z], e)
                    IN  /\ Cardinality(found) = 1
                        /\ \A x \in found :
                              IF e.tileKey.level <= z
                              THEN x = e
                              ELSE x.tileKey = AncestorAt(e.tileKey, z)

CoveragePerBranchWitness ==
    /\ Returned
    /\ event = "return"
    /\ \E e \in stopped, z \in DOMAIN m_tileKeyEntries :
          z >= 0 /\ e.tileKey.level > z
    /\ \E e \in stopped, z \in DOMAIN m_tileKeyEntries :
          e.tileKey.level > 0 /\ e.tileKey.level < z


\* ---------------------------------------------------------------------------
\* C18  After any sequence of compute calls, the result of the latest call
\* that ran with a defined world box has one map per distinct value of that
\* call's zoomLevels, duplicates collapsed, and no map for a zoom level that
\* only an earlier call requested.
ZoomLevelKeySet ==
    (Returned /\ event = "return") =>
        DOMAIN m_tileKeyEntries = RequestedZoomLevels

ZoomLevelKeySetWitness ==
    /\ Returned
    /\ event = "return"
    /\ Len(zoomLevels) = 2
    /\ zoomLevels[1] = zoomLevels[2]
    /\ DOMAIN m_tileKeyEntries = {zoomLevels[1]}
    /\ stopped # {}


\* ---------------------------------------------------------------------------
\* C19  After every updateFrustum the root list holds exactly one entry, of
\* level 0, offset 0, area +infinity and zero elevation range, however many
\* calls came before (the code pushes the same single root in both branches,
\* so this holds in particular when the projection does not wrap or wrapping
\* is disabled); and a root popped by compute whose subdivision a data source
\* requests is subdivided, mixed-LOD or not, since its area is +infinity.
RootPoppedAndRequested ==
    /\ pc = "loop"
    /\ workList # << >>
    /\ workList[Len(workList)].tileKey = RootTileKey
    /\ SomeShouldSubdivide(dataSources, zoomLevels, RootTileKey)

RootListAfterUpdateFrustum ==
    [][/\ event' = "updateFrustum" =>
            /\ m_rootTileKeys' = << RootEntry >>
            /\ m_rootTileKeys'[1].tileKey.level = 0
            /\ m_rootTileKeys'[1].offset = 0
            /\ m_rootTileKeys'[1].area = Infinity
            /\ m_rootTileKeys'[1].minElevation = 0
            /\ m_rootTileKeys'[1].maxElevation = 0
       /\ RootPoppedAndRequested =>
            /\ event' = "stepSubdivided"
            /\ Subdivides(workList[Len(workList)])
      ]_vars

\* An updateFrustum, with wrapping disabled and mixed-LOD on, that follows a
\* compute at viewport height 128 (itself preceded by an updateFrustum) which
\* subdivided the root and stopped at its children.
RootListWitness ==
    /\ event = "updateFrustum"
    /\ ~m_tileWrappingEnabled
    /\ m_enableMixedLod
    /\ m_rootTileKeys = << RootEntry >>
    /\ viewportHeight = 128
    /\ \E e \in stopped : e.tileKey.level = 1
    /\ \A e \in stopped : e.tileKey.level = 1


\* ---------------------------------------------------------------------------
\* C20  updateFrustum does no traversal: it changes the world box and the
\* root list (and the view-projection matrix, which nothing else reads) and
\* leaves the maps of every zoom level, the work stack and the last result
\* as the last compute left them; the new world box and roots are used only
\* by the next compute.
UpdateFrustumNoTraversal ==
    [][event' = "updateFrustum" =>
          /\ m_tileKeyEntries' = m_tileKeyEntries
          /\ workList' = workList
          /\ calculationFinal' = calculationFinal
          /\ pushed' = pushed
          /\ stopped' = stopped
          /\ pc' = "idle"
      ]_vars

\* After updateFrustum the maps still hold a tile of the last compute that
\* does not intersect the new world box.
UpdateFrustumWitness ==
    /\ event = "updateFrustum"
    /\ m_worldBox # {}
    /\ \E e \in MapEntries :
          /\ e.tileKey.level > 0
          /\ ~geoBoxesIntersect(WorldBox, getGeoBox(e.tileKey, e.offset))


\* ---------------------------------------------------------------------------
\* C21  For a fixed engine state, zoom levels, data sources and view, compute
\* returns the same maps and the same calculationFinal whether the elevation
\* range source is undefined, matches the tiling scheme or belongs to another
\* one; and whatever the source, every child in the result passed the 2D
\* geoBoxesIntersect test against the world box.
ResultOfThisCall ==
    [tileKeyEntries |-> m_tileKeyEntries, calculationFinal |-> calculationFinal]

====
